---- MODULE Spec2Model ----
(***************************************************************************)
(* ray_lightning/ray_ddp.py: the RayPlugin driver, the RayExecutor actors  *)
(* it launches, and the run they perform together.                         *)
(*                                                                         *)
(* Actors are numbered by their position in self.workers (0-based, as in   *)
(* the source); sequences are 1-based, so position i is element i+1.       *)
(***************************************************************************)
EXTENDS Integers, Sequences, FiniteSets, TLC

\* ------------------------------------------------------------------ bounds
MaxWorkers == 2      \* num_workers ranges over 1..MaxWorkers
MaxMsgs == 1         \* progress reports enqueued in a run, all workers together
MaxCrashes == 1      \* actors that may die in a run
MaxRankLen == 5      \* length of the node-identity lists get_local_ranks is tried on

\* ------------------------------------------------------------- value sets
None == "None"                       \* Python's None, where the value is a string
NodeIps == {"A", "B"}                \* node identities of the cluster
RankNodeIps == {"A", "B", "C"}       \* node identities for get_local_ranks alone
Ports == {29500, 29501}              \* ports find_free_port may return
Keys == {"PL_GLOBAL_SEED", "PL_TORCH_DISTRIBUTED_BACKEND", "MASTER_ADDR", "MASTER_PORT"}
TrainerFns == {"fit", "test", "predict"}
\* What the driver process may have in its environment before a run: the
\* seed set and the backend not, or the other way round.
DriverEnvs ==
  { [k \in Keys |-> IF k = "PL_GLOBAL_SEED" THEN "42" ELSE None],
    [k \in Keys |-> IF k = "PL_TORCH_DISTRIBUTED_BACKEND" THEN "gloo" ELSE None] }

\* ------------------------------------------------------- get_local_ranks
\* node_ip_map of lines 191-193: the loop overwrites the entry of an ip with
\* every later index i, so the map holds the LAST index of each ip.
RECURSIVE node_ip_map_loop(_, _, _)
node_ip_map_loop(node_ips, i, m) ==
  IF i >= Len(node_ips) THEN m
  ELSE node_ip_map_loop(node_ips, i + 1,
         [ip \in DOMAIN m \cup {node_ips[i + 1]} |->
            IF ip = node_ips[i + 1] THEN i ELSE m[ip]])

node_ip_map(node_ips) == node_ip_map_loop(node_ips, 0, <<>>)

\* rank_counter with the count taken after the increment of line 202.
rank_counter_incremented_first(counter, ip) ==
  IF ip \in DOMAIN counter THEN counter[ip] + 1 ELSE 1

\* rank_counter_dict[ip] of a defaultdict(int): 0 when the key is absent.
rank_counter(counter, ip) == IF ip \in DOMAIN counter THEN counter[ip] ELSE 0

\* The loop of lines 198-202 over global_rank in range(n).
RECURSIVE local_rank_loop(_, _, _, _, _, _)
local_rank_loop(node_ips, ipmap, n, global_rank, counter, global_to_local) ==
  IF global_rank >= n THEN global_to_local
  ELSE LET ip == node_ips[global_rank + 1]
       IN local_rank_loop(node_ips, ipmap, n, global_rank + 1,
            [k \in DOMAIN counter \cup {ip} |->
               IF k = ip THEN rank_counter(counter, ip) + 1 ELSE counter[k]],
            Append(global_to_local, <<rank_counter(counter, ip), ipmap[ip]>>))

\* get_local_ranks: entry g+1 is the (local rank, node rank) of global rank g.
get_local_ranks(node_ips, n) ==
  local_rank_loop(node_ips, node_ip_map(node_ips), n, 0, <<>>, <<>>)


\* ------------------------------------------------------------------ state
VARIABLES
  num_workers,      \* RayPlugin.num_workers
  trainer_fn,       \* which of start_training / start_evaluating / start_predicting runs
  TUNE_INSTALLED,   \* ray_lightning.tune.TUNE_INSTALLED
  session_enabled,  \* what is_session_enabled() returns on the driver
  pc,               \* the driver's position
  error,            \* what the driver raised to its caller, None when nothing
  workers,          \* self.workers: the actor handles, by position
  os_environ,       \* the driver's os.environ, restricted to Keys
  global_to_local,  \* self.global_to_local
  model_,           \* self._model on the driver
  restored,         \* <<>> or <<what lines 244-257 stored on the driver>>
  queue,            \* the local `queue` of execution_loop
  futures,          \* the object refs the driver is waiting on, by actor
  next_i,           \* the index the dispatch comprehension of line 234 is at
  results,          \* what process_results returned
  node_ip,          \* per actor: what get_node_ip returns
  alive,            \* per actor: the process runs
  killed,           \* per actor: ray.kill was called on it
  env,              \* per actor: its os.environ, restricted to Keys
  mailbox,          \* per actor: the submitted tasks not yet finished, in order
  wpc,              \* per actor: its position inside the task it runs
  ranks,            \* per actor: (_global_rank, _local_rank, _node_rank) of its plugin copy
  session,          \* per actor: <<>> or <<rank>> given to init_session
  pg,               \* per actor: "no" | "joining" | "up": its process-group membership
  sent,             \* per actor: progress reports put on the queue so far
  forwarded,        \* the progress reports the driver took off the queue
  endpoint_src,     \* the actors MASTER_ADDR and MASTER_PORT were asked from
  post_dispatches,  \* number of post_dispatch calls begun
  crashes,          \* number of actors that died
  raised,           \* the actors whose execute_remote raised in run_stage
  died_at,          \* per actor that died during the rendezvous: the
                    \* step of _setup_env_vars the driver stood at
  remote_self       \* per actor: the plugin copy execute_remote runs on

vars == <<num_workers, trainer_fn, TUNE_INSTALLED, session_enabled, pc, error,
          workers, os_environ, global_to_local, model_, restored, queue,
          futures, next_i, results, node_ip, alive, killed, env, mailbox, wpc,
          ranks, session, pg, sent, forwarded, endpoint_src, post_dispatches,
          crashes, raised, died_at, remote_self>>

config_vars == <<num_workers, trainer_fn, TUNE_INSTALLED, session_enabled>>
actor_vars == <<node_ip, alive, killed, env, mailbox, wpc, ranks, session, pg, sent>>

Ids == 0 .. (num_workers - 1)
NoQueue == [exists |-> FALSE, items |-> <<>>, shutdown |-> FALSE]
NoFutures == [op |-> "none", st |-> <<>>, val |-> <<>>]
TheModel == "model"

\* RayPlugin.__init__ (lines 115-127) and the driver's state before setup.
Constructed(n) ==
  /\ num_workers = n
  /\ pc = "constructed"
  /\ error = None
  /\ workers = <<>>
  /\ global_to_local = <<>>
  /\ model_ = TheModel
  /\ restored = <<>>
  /\ queue = NoQueue
  /\ futures = NoFutures
  /\ next_i = 0
  /\ results = <<>>
  /\ node_ip = <<>> /\ alive = <<>> /\ killed = <<>> /\ env = <<>>
  /\ mailbox = <<>> /\ wpc = <<>> /\ ranks = <<>> /\ session = <<>>
  /\ pg = <<>> /\ sent = <<>>
  /\ forwarded = {}
  /\ endpoint_src = [addr |-> <<>>, port |-> <<>>]
  /\ post_dispatches = 0
  /\ crashes = 0
  /\ raised = {}
  /\ died_at = <<>>
  /\ remote_self = <<>>

Init ==
  /\ \E n \in 1 .. MaxWorkers : Constructed(n)
  /\ trainer_fn \in TrainerFns
  /\ TUNE_INSTALLED \in BOOLEAN
  /\ session_enabled \in BOOLEAN
  /\ os_environ \in DriverEnvs

\* ---------------------------------------------------- remote-call plumbing
\* w.<method>.remote(...): the task joins the actor's mailbox; a dead actor's
\* object ref resolves to an error.
Submitted(mb, w, task) ==
  IF alive[w] THEN [mb EXCEPT ![w] = Append(@, task)] ELSE mb

RefState(w) == IF alive[w] THEN "pending" ELSE "err"

\* ray.get(refs) on the current batch.
AllOk == \A w \in DOMAIN futures.st : futures.st[w] = "ok"
AnyErr == \E w \in DOMAIN futures.st : futures.st[w] = "err"
AnyPending == \E w \in DOMAIN futures.st : futures.st[w] = "pending"

Raise(why) ==
  /\ pc' = "raised"
  /\ error' = why

\* An actor finishing the task at the head of its mailbox resolves the ref
\* the driver holds for it, when the driver still holds the batch.
Resolved(w, op, st, val) ==
  IF futures.op = op /\ w \in DOMAIN futures.st
  THEN [futures EXCEPT !.st[w] = st, !.val[w] = val]
  ELSE futures

\* ------------------------------------------------------------------ driver
\* setup (lines 149-153): one actor per worker, placed by the cluster, each
\* with the environment its node gives it; init_hook is None, the default.
\* Node names are interchangeable: the first actor's node is called "A".
setup ==
  /\ pc = "constructed"
  /\ workers' = [i \in 1 .. num_workers |-> i - 1]
  /\ \E ips \in [Ids -> NodeIps], inherited \in {None, "7"} :
       /\ ips[0] = "A"
       /\ node_ip' = ips
       /\ env' = [w \in Ids |-> [k \in Keys |->
                    IF k = "PL_GLOBAL_SEED" THEN inherited ELSE None]]
  /\ alive' = [w \in Ids |-> TRUE]
  /\ killed' = [w \in Ids |-> FALSE]
  /\ mailbox' = [w \in Ids |-> <<>>]
  /\ wpc' = [w \in Ids |-> "idle"]
  /\ ranks' = [w \in Ids |-> <<0, 0, 0>>]
  /\ session' = [w \in Ids |-> <<>>]
  /\ pg' = [w \in Ids |-> "no"]
  /\ sent' = [w \in Ids |-> 0]
  /\ remote_self' = [w \in Ids |-> <<>>]
  /\ pc' = "ready"
  /\ UNCHANGED <<config_vars, error, os_environ, global_to_local, model_,
                 restored, queue, futures, next_i, results, forwarded,
                 endpoint_src, post_dispatches, crashes, raised, died_at>>

\* Every entry point passing tune_enabled=True.
tune_enabled_always == TRUE

\* The tune_enabled argument each entry point passes to execution_loop.
tune_enabled == trainer_fn = "fit"

EnterExecutionLoop ==
  /\ pc = "ready"
  /\ pc' = "env_addr"
  /\ UNCHANGED <<config_vars, error, workers, os_environ, global_to_local,
                 model_, restored, queue, futures, next_i, results, actor_vars,
                 forwarded, endpoint_src, post_dispatches, crashes, raised, died_at, remote_self>>

start_training == trainer_fn = "fit" /\ EnterExecutionLoop
start_evaluating == trainer_fn = "test" /\ EnterExecutionLoop
start_predicting == trainer_fn = "predict" /\ EnterExecutionLoop

\* The last worker of the pool asked instead of the first.
MasterWorker_last == workers[Len(workers)]

\* The actor _setup_env_vars asks for the address and the port (workers[0]).
MasterWorker == workers[1]

\* _setup_env_vars, lines 157-158: ray.get(self.workers[0].get_node_ip.remote()).
setup_env_addr ==
  /\ pc = "env_addr"
  /\ IF alive[MasterWorker]
     THEN /\ os_environ' = [os_environ EXCEPT !["MASTER_ADDR"] = node_ip[MasterWorker]]
          /\ endpoint_src' = [endpoint_src EXCEPT !.addr = <<MasterWorker>>]
          /\ pc' = "env_port"
          /\ UNCHANGED error
     ELSE /\ Raise("RayActorError")
          /\ UNCHANGED <<os_environ, endpoint_src>>
  /\ UNCHANGED <<config_vars, workers, global_to_local, model_, restored, queue,
                 futures, next_i, results, actor_vars, forwarded,
                 post_dispatches, crashes, raised, died_at, remote_self>>

\* _setup_env_vars, lines 159-160: str(ray.get(workers[0].execute.remote(find_free_port))).
setup_env_port ==
  /\ pc = "env_port"
  /\ IF alive[MasterWorker]
     THEN /\ \E port \in Ports :
               os_environ' = [os_environ EXCEPT !["MASTER_PORT"] = ToString(port)]
          /\ endpoint_src' = [endpoint_src EXCEPT !.port = <<MasterWorker>>]
          /\ pc' = "env_broadcast"
          /\ UNCHANGED error
     ELSE /\ Raise("RayActorError")
          /\ UNCHANGED <<os_environ, endpoint_src>>
  /\ UNCHANGED <<config_vars, workers, global_to_local, model_, restored, queue,
                 futures, next_i, results, actor_vars, forwarded,
                 post_dispatches, crashes, raised, died_at, remote_self>>

\* The broadcast leaving out the worker the endpoint came from.
BroadcastTargets_others == {workers[i] : i \in DOMAIN workers} \ {MasterWorker}

\* The workers the comprehension of lines 166-168 covers: self.workers.
BroadcastTargets == {workers[i] : i \in DOMAIN workers}

\* _setup_env_vars, lines 163-168, up to the ray.get: values = os.getenv of
\* each key, and one set_env_vars.remote per worker.
setup_env_broadcast ==
  /\ pc = "env_broadcast"
  /\ mailbox' = [w \in Ids |->
                   IF alive[w] /\ w \in BroadcastTargets
                   THEN Append(mailbox[w], [op |-> "set_env_vars", values |-> os_environ])
                   ELSE mailbox[w]]
  /\ futures' = [op |-> "set_env_vars",
                 st |-> [w \in BroadcastTargets |-> RefState(w)],
                 val |-> [w \in BroadcastTargets |-> <<>>]]
  /\ pc' = "env_wait"
  /\ UNCHANGED <<config_vars, error, workers, os_environ, global_to_local,
                 model_, restored, queue, next_i, results, node_ip, alive,
                 killed, env, wpc, ranks, session, pg, sent, forwarded,
                 endpoint_src, post_dispatches, crashes, raised, died_at, remote_self>>

\* The refs of line 168 dropped without a ray.get.
EnvBroadcastAcked_not_awaited == TRUE

\* Whether the ray.get of line 168 has what it waits for.
EnvBroadcastAcked == AllOk

\* _setup_env_vars, line 168: the ray.get on the set_env_vars refs.
setup_env_wait ==
  /\ pc = "env_wait"
  /\ \/ /\ EnvBroadcastAcked
        /\ pc' = "get_local_ranks"
        /\ UNCHANGED error
     \/ /\ AnyErr
        /\ Raise("RayActorError")
  /\ futures' = NoFutures
  /\ UNCHANGED <<config_vars, workers, os_environ, global_to_local, model_,
                 restored, queue, next_i, results, actor_vars, forwarded,
                 endpoint_src, post_dispatches, crashes, raised, died_at, remote_self>>

\* get_local_ranks, line 189: the node ip of every worker, by position.
node_ips == [i \in 1 .. Len(workers) |-> node_ip[workers[i]]]

\* execution_loop, line 222: self.global_to_local = self.get_local_ranks().
\* The ray.get of line 189 raises when an actor is dead.
get_ranks ==
  /\ pc = "get_local_ranks"
  /\ IF \A w \in Ids : alive[w]
     THEN /\ global_to_local' = get_local_ranks(node_ips, num_workers)
          /\ pc' = "put_model"
          /\ UNCHANGED error
     ELSE /\ Raise("RayActorError")
          /\ UNCHANGED global_to_local
  /\ UNCHANGED <<config_vars, workers, os_environ, model_, restored, queue,
                 futures, next_i, results, actor_vars, forwarded, endpoint_src,
                 post_dispatches, crashes, raised, died_at, remote_self>>

\* The condition of line 230.
CreatesQueue == tune_enabled /\ TUNE_INSTALLED /\ session_enabled

\* execution_loop, lines 224-232: the model goes to the object store, the
\* plugin's own reference is cleared, and the queue is created.
put_model ==
  /\ pc = "put_model"
  /\ model_' = None
  /\ queue' = IF CreatesQueue
              THEN [exists |-> TRUE, items |-> <<>>, shutdown |-> FALSE]
              ELSE NoQueue
  /\ futures' = [op |-> "execute_remote", st |-> <<>>, val |-> <<>>]
  /\ next_i' = 0
  /\ pc' = "dispatch"
  /\ UNCHANGED <<config_vars, error, workers, os_environ, global_to_local,
                 restored, results, actor_vars, forwarded, endpoint_src,
                 post_dispatches, crashes, raised, died_at, remote_self>>

\* The global rank the comprehension of lines 234-238 hands to position i.
DispatchedRank(i) == i

\* The driver plugin's attributes (self.__dict__), those the workers read.
PluginDict ==
  [workers |-> workers,
   num_workers |-> num_workers,
   global_to_local |-> global_to_local,
   is_remote |-> FALSE]

\* The copy pickled whole, workers included.
getstate_whole(d) == d

\* __getstate__ (lines 132-136): a copy of the attributes without "workers".
__getstate__(d) == [k \in DOMAIN d \ {"workers"} |-> d[k]]

\* __setstate__ (lines 138-140): the attributes with an empty worker list.
__setstate__(d) ==
  [k \in DOMAIN d \cup {"workers"} |-> IF k = "workers" THEN <<>> ELSE d[k]]

\* Each dispatch waiting for the refs of the positions before it.
DispatchWaitsFor_previous(i) == {workers[k] : k \in 1 .. i}

\* The refs the driver waits on before it issues the call for position i:
\* execute.remote returns its ref at once, so none.
DispatchWaitsFor(i) == {}

\* execution_loop, lines 234-238: one element of the comprehension, the
\* execute.remote(self.execute_remote, model_ref, i, queue) for position i.
\* The bound method pickles the plugin through __getstate__.
dispatch ==
  /\ pc = "dispatch"
  /\ next_i < num_workers
  /\ \A v \in DispatchWaitsFor(next_i) : futures.st[v] # "pending"
  /\ LET w == workers[next_i + 1]
         task == [op |-> "execute_remote",
                  global_rank |-> DispatchedRank(next_i),
                  queue |-> queue.exists,
                  plugin |-> __getstate__(PluginDict)]
     IN /\ mailbox' = Submitted(mailbox, w, task)
        /\ futures' = [futures EXCEPT
                         !.st = [v \in DOMAIN futures.st \cup {w} |->
                                   IF v = w THEN RefState(w) ELSE futures.st[v]],
                         !.val = [v \in DOMAIN futures.val \cup {w} |->
                                   IF v = w THEN <<>> ELSE futures.val[v]]]
  /\ next_i' = next_i + 1
  /\ pc' = IF next_i + 1 = num_workers THEN "process_results" ELSE "dispatch"
  /\ UNCHANGED <<config_vars, error, workers, os_environ, global_to_local,
                 model_, restored, queue, results, node_ip, alive, killed, env,
                 wpc, ranks, session, pg, sent, forwarded, endpoint_src,
                 post_dispatches, crashes, raised, died_at, remote_self>>

\* process_results called without the queue.
ProcessResultsQueue_missing == NoQueue

\* The queue argument of the process_results call of line 240.
ProcessResultsQueue == queue

\* _handle_queue: everything on the queue is taken off and handled.
Drained(q) == [q EXCEPT !.items = <<>>]
Handled(q) == forwarded \cup {q.items[i] : i \in 1 .. Len(q.items)}

\* process_results, while some ref is unresolved: one pass over the queue.
process_results_poll ==
  /\ pc = "process_results"
  /\ AnyPending
  /\ ProcessResultsQueue.exists
  /\ queue.items # <<>>
  /\ forwarded' = Handled(queue)
  /\ queue' = Drained(queue)
  /\ UNCHANGED <<config_vars, pc, error, workers, os_environ, global_to_local,
                 model_, restored, futures, next_i, results, actor_vars,
                 endpoint_src, post_dispatches, crashes, raised, died_at, remote_self>>

\* process_results, every ref resolved: the queue is emptied once more and
\* the results come back by position.
process_results_return ==
  /\ pc = "process_results"
  /\ AllOk
  /\ IF ProcessResultsQueue.exists
     THEN forwarded' = Handled(queue) /\ queue' = Drained(queue)
     ELSE UNCHANGED <<forwarded, queue>>
  /\ results' = [i \in 1 .. Len(workers) |-> futures.val[workers[i]]]
  /\ futures' = NoFutures
  /\ pc' = "restore"
  /\ UNCHANGED <<config_vars, error, workers, os_environ, global_to_local,
                 model_, restored, next_i, actor_vars, endpoint_src,
                 post_dispatches, crashes, raised, died_at, remote_self>>

\* process_results, a ref resolved to an error: ray.get raises it.
process_results_raise ==
  /\ pc = "process_results"
  /\ AnyErr
  /\ Raise("RemoteExecutionError")
  /\ UNCHANGED <<config_vars, workers, os_environ, global_to_local, model_,
                 restored, queue, futures, next_i, results, actor_vars,
                 forwarded, endpoint_src, post_dispatches, crashes, raised, died_at, remote_self>>

\* util.to_state_stream / util.load_state_stream: the state dict goes through
\* a byte stream and comes back.
to_state_stream(state_dict) == <<"stream", state_dict>>
load_state_stream(stream) == stream[2]

\* best_model_path when there is no checkpoint callback: None on the worker
\* (line 365), nothing to assign to on the driver (line 250).
NoCheckpoint == <<>>
NotStored == <<"no checkpoint_callback">>

\* The trainer's checkpoint_callback, as line 250 finds it on the driver.  The
\* worker's trainer is the unpickled copy of the driver's, so the driver has
\* the callback exactly when the worker of the envelope had it (line 364).
HasCheckpointCallback(envelope) == envelope.best_model_path # NoCheckpoint

\* Line 244 with best_path and state_stream taken in the wrong order.
Unpacked_swapped(envelope) ==
  [results |-> envelope.results,
   state_dict |-> envelope.best_model_path,
   best_model_path |-> IF HasCheckpointCallback(envelope)
                       THEN load_state_stream(envelope.model_state_stream)
                       ELSE NotStored,
   callback_metrics |-> envelope.callback_metrics]

\* execution_loop, lines 244-257: the envelope unpacked into what the driver
\* keeps: _results, the state dict loaded into the model, the checkpoint
\* callback's best_model_path, and the trainer's callback_metrics.
Unpacked(envelope) ==
  [results |-> envelope.results,
   state_dict |-> load_state_stream(envelope.model_state_stream),
   best_model_path |-> IF HasCheckpointCallback(envelope)
                       THEN envelope.best_model_path
                       ELSE NotStored,
   callback_metrics |-> envelope.callback_metrics]

\* What line 244 takes from the list process_results returned: results[0].
LeaderResult == results[1]

\* execution_loop, lines 244-263: results[0] is unpacked (None cannot be),
\* its parts are stored on the driver, and the queue is shut down.
restore ==
  /\ pc = "restore"
  /\ IF LeaderResult = <<>>
     THEN /\ Raise("TypeError")
          /\ UNCHANGED <<model_, restored, queue>>
     ELSE /\ restored' = <<Unpacked(LeaderResult[1])>>
          /\ model_' = TheModel
          /\ queue' = IF queue.exists THEN [queue EXCEPT !.shutdown = TRUE] ELSE queue
          /\ pc' = "returned"
          /\ UNCHANGED error
  /\ UNCHANGED <<config_vars, workers, os_environ, global_to_local, futures,
                 next_i, results, actor_vars, forwarded, endpoint_src,
                 post_dispatches, crashes, raised, died_at, remote_self>>

\* post_dispatch, line 273 up to the ray.get: shutdown_remote goes to every
\* worker.  The trainer calls post_dispatch once its dispatch has returned.
post_dispatch_begin ==
  /\ pc = "returned"
  /\ mailbox' = [w \in Ids |->
                   IF alive[w] THEN Append(mailbox[w], [op |-> "shutdown_remote"])
                   ELSE mailbox[w]]
  /\ futures' = [op |-> "shutdown_remote",
                 st |-> [w \in Ids |-> RefState(w)],
                 val |-> [w \in Ids |-> <<>>]]
  /\ post_dispatches' = post_dispatches + 1
  /\ pc' = "post_dispatch"
  /\ UNCHANGED <<config_vars, error, workers, os_environ, global_to_local,
                 model_, restored, queue, next_i, results, node_ip, alive,
                 killed, env, wpc, ranks, session, pg, sent, forwarded,
                 endpoint_src, crashes, raised, died_at, remote_self>>

\* post_dispatch, lines 273-277: the ray.get, then ray.kill on every worker
\* and self.workers = [].
post_dispatch_end ==
  /\ pc = "post_dispatch"
  /\ \/ /\ AllOk
        /\ killed' = [w \in Ids |-> TRUE]
        /\ alive' = [w \in Ids |-> FALSE]
        /\ mailbox' = [w \in Ids |-> <<>>]
        /\ wpc' = [w \in Ids |-> "dead"]
        /\ workers' = <<>>
        /\ pc' = "torn_down"
        /\ UNCHANGED error
     \/ /\ AnyErr
        /\ pc' = "post_dispatch_raised"
        /\ error' = "RayError"
        /\ UNCHANGED <<killed, alive, mailbox, wpc, workers>>
  /\ futures' = NoFutures
  /\ UNCHANGED <<config_vars, os_environ, global_to_local, model_, restored,
                 queue, next_i, results, node_ip, env, ranks, session, pg, sent,
                 forwarded, endpoint_src, post_dispatches, crashes, raised, died_at, remote_self>>

\* ------------------------------------------------------------------ actors
Task(w) == mailbox[w][1]
Runs(w, op) ==
  /\ w \in DOMAIN mailbox
  /\ alive[w]
  /\ mailbox[w] # <<>>
  /\ Task(w).op = op

\* RayExecutor.set_env_var (lines 40-44): a None value leaves the variable
\* as it is; any other is stored (str of a string is that string).
set_env_var(environ, key, value) ==
  IF value # None THEN [environ EXCEPT ![key] = value] ELSE environ

\* RayExecutor.set_env_vars (lines 46-50) over the zip of keys and values.
RECURSIVE set_env_vars_loop(_, _, _)
set_env_vars_loop(environ, keys, values) ==
  IF keys = {} THEN environ
  ELSE LET key == CHOOSE k \in keys : TRUE
       IN set_env_vars_loop(set_env_var(environ, key, values[key]),
                            keys \ {key}, values)

set_env_vars(w) ==
  /\ Runs(w, "set_env_vars")
  /\ wpc[w] = "idle"
  /\ env' = [env EXCEPT ![w] = set_env_vars_loop(env[w], Keys, Task(w).values)]
  /\ mailbox' = [mailbox EXCEPT ![w] = Tail(@)]
  /\ futures' = Resolved(w, "set_env_vars", "ok", <<>>)
  /\ UNCHANGED <<config_vars, pc, error, workers, os_environ, global_to_local,
                 model_, restored, queue, next_i, results, node_ip, alive,
                 killed, wpc, ranks, session, pg, sent, forwarded,
                 endpoint_src, post_dispatches, crashes, raised, died_at, remote_self>>

\* The pair of line 285 unpacked the other way round.
set_world_ranks_swapped(process_idx, g2l) ==
  <<process_idx, g2l[process_idx + 1][2], g2l[process_idx + 1][1]>>

\* set_world_ranks (lines 281-286) on the actor's plugin copy, _is_remote
\* being True there (line 336).
set_world_ranks(process_idx, g2l) ==
  <<process_idx, g2l[process_idx + 1][1], g2l[process_idx + 1][2]>>

global_rank(w) == ranks[w][1]

\* What init_process_group needs from the environment.
HasEndpoint(w) == env[w]["MASTER_ADDR"] # None /\ env[w]["MASTER_PORT"] # None

\* execute_remote, lines 323-342, and _worker_setup, lines 288-301: the
\* session when a queue came along (338-340), the ranks (290), and the entry
\* into init_process_group (301), which raises without a rendezvous endpoint
\* in the environment.
execute_remote_begin(w) ==
  /\ Runs(w, "execute_remote")
  /\ wpc[w] = "idle"
  /\ session' = [session EXCEPT ![w] =
                   IF Task(w).queue THEN <<Task(w).global_rank>> ELSE @]
  /\ LET unpickled == __setstate__(Task(w).plugin)
     IN /\ remote_self' = [remote_self EXCEPT ![w] =
                             <<[unpickled EXCEPT !.is_remote = TRUE]>>]
        /\ ranks' = [ranks EXCEPT ![w] =
                       set_world_ranks(Task(w).global_rank,
                                       unpickled.global_to_local)]
  /\ IF HasEndpoint(w)
     THEN /\ pg' = [pg EXCEPT ![w] = "joining"]
          /\ wpc' = [wpc EXCEPT ![w] = "init_process_group"]
          /\ UNCHANGED <<mailbox, futures>>
     ELSE /\ mailbox' = [mailbox EXCEPT ![w] = Tail(@)]
          /\ futures' = Resolved(w, "execute_remote", "err", <<>>)
          /\ UNCHANGED <<pg, wpc>>
  /\ UNCHANGED <<config_vars, pc, error, workers, os_environ, global_to_local,
                 model_, restored, queue, next_i, results, node_ip, alive,
                 killed, env, sent, forwarded, endpoint_src, post_dispatches,
                 crashes, raised, died_at>>

\* init_process_group (line 301) returns once all world_size members joined.
AllJoined == \A v \in Ids : pg[v] = "up" \/ (pg[v] = "joining" /\ alive[v])

\* execute_remote, lines 301-356: out of init_process_group, model to
\* device, DDP wrap, barrier.
init_process_group(w) ==
  /\ w \in DOMAIN wpc
  /\ alive[w]
  /\ wpc[w] = "init_process_group"
  /\ AllJoined
  /\ pg' = [pg EXCEPT ![w] = "up"]
  /\ wpc' = [wpc EXCEPT ![w] = "run_stage"]
  /\ UNCHANGED <<config_vars, pc, error, workers, os_environ, global_to_local,
                 model_, restored, queue, futures, next_i, results, node_ip,
                 alive, killed, env, mailbox, ranks, session, sent, forwarded,
                 endpoint_src, post_dispatches, crashes, raised, died_at, remote_self>>

RECURSIVE TotalSent(_)
TotalSent(S) ==
  IF S = {} THEN 0
  ELSE LET v == CHOOSE x \in S : TRUE IN sent[v] + TotalSent(S \ {v})

\* run_stage (line 358) reporting to the session: (rank, item) goes on the queue.
report(w) ==
  /\ w \in DOMAIN wpc
  /\ alive[w]
  /\ wpc[w] = "run_stage"
  /\ session[w] # <<>>
  /\ TotalSent(Ids) < MaxMsgs
  /\ queue' = [queue EXCEPT !.items = Append(@, <<session[w][1], sent[w] + 1>>)]
  /\ sent' = [sent EXCEPT ![w] = @ + 1]
  /\ UNCHANGED <<config_vars, pc, error, workers, os_environ, global_to_local,
                 model_, restored, futures, next_i, results, node_ip, alive,
                 killed, env, mailbox, wpc, ranks, session, pg, forwarded,
                 endpoint_src, post_dispatches, crashes, raised, died_at, remote_self>>

\* The tuple of lines 362-381, as the actor w computes it; checkpoint_callback
\* is whether its trainer has one (lines 364-365).
Envelope(w, checkpoint_callback) ==
  [results |-> <<"results", w>>,
   best_model_path |-> IF checkpoint_callback THEN <<"ckpt", w>> ELSE NoCheckpoint,
   model_state_stream |-> to_state_stream(<<"state_dict", w>>),
   callback_metrics |-> <<"metrics", w>>]

\* Line 361 without the rank test, and with the local rank tested.
ReturnsEnvelope_always(w) == TRUE
ReturnsEnvelope_local_rank(w) == ranks[w][2] = 0

\* The condition of line 361.
ReturnsEnvelope(w) == global_rank(w) = 0

\* execute_remote, lines 358-388: run_stage is over; return_val.
execute_remote_return(w) ==
  /\ Runs(w, "execute_remote")
  /\ wpc[w] = "run_stage"
  /\ \E checkpoint_callback \in BOOLEAN :
       futures' = Resolved(w, "execute_remote", "ok",
                           IF ReturnsEnvelope(w)
                           THEN <<Envelope(w, checkpoint_callback)>>
                           ELSE <<>>)
  /\ mailbox' = [mailbox EXCEPT ![w] = Tail(@)]
  /\ wpc' = [wpc EXCEPT ![w] = "idle"]
  /\ UNCHANGED <<config_vars, pc, error, workers, os_environ, global_to_local,
                 model_, restored, queue, next_i, results, node_ip, alive,
                 killed, env, ranks, session, pg, sent, forwarded,
                 endpoint_src, post_dispatches, crashes, raised, died_at, remote_self>>

\* RayExecutor.execute (lines 56-58) when fn raises in run_stage: the
\* exception is the task's result.
execute_remote_raise(w) ==
  /\ Runs(w, "execute_remote")
  /\ wpc[w] = "run_stage"
  /\ futures' = Resolved(w, "execute_remote", "err", <<>>)
  /\ raised' = raised \cup {w}
  /\ mailbox' = [mailbox EXCEPT ![w] = Tail(@)]
  /\ wpc' = [wpc EXCEPT ![w] = "idle"]
  /\ UNCHANGED <<config_vars, pc, error, workers, os_environ, global_to_local,
                 model_, restored, queue, next_i, results, node_ip, alive,
                 killed, env, ranks, session, pg, sent, forwarded,
                 endpoint_src, post_dispatches, crashes, died_at, remote_self>>

\* shutdown_remote (lines 268-271): destroy_process_group raises when the
\* actor has no process group.
shutdown_remote(w) ==
  /\ Runs(w, "shutdown_remote")
  /\ wpc[w] = "idle"
  /\ IF pg[w] = "up"
     THEN /\ pg' = [pg EXCEPT ![w] = "no"]
          /\ futures' = Resolved(w, "shutdown_remote", "ok", <<>>)
     ELSE /\ futures' = Resolved(w, "shutdown_remote", "err", <<>>)
          /\ UNCHANGED pg
  /\ mailbox' = [mailbox EXCEPT ![w] = Tail(@)]
  /\ UNCHANGED <<config_vars, pc, error, workers, os_environ, global_to_local,
                 model_, restored, queue, next_i, results, node_ip, alive,
                 killed, env, wpc, ranks, session, sent, forwarded,
                 endpoint_src, post_dispatches, crashes, raised, died_at, remote_self>>

\* The steps of _setup_env_vars (lines 155-168).
RendezvousSteps == {"env_addr", "env_port", "env_broadcast", "env_wait"}

\* An actor process dies (node loss, out of memory): its unfinished tasks
\* resolve to RayActorError.
actor_dies(w) ==
  /\ w \in DOMAIN alive
  /\ alive[w]
  /\ crashes < MaxCrashes
  /\ pc \notin {"raised", "post_dispatch_raised", "torn_down"}
  /\ alive' = [alive EXCEPT ![w] = FALSE]
  /\ wpc' = [wpc EXCEPT ![w] = "dead"]
  /\ mailbox' = [mailbox EXCEPT ![w] = <<>>]
  /\ futures' = IF w \in DOMAIN futures.st /\ futures.st[w] = "pending"
                THEN [futures EXCEPT !.st[w] = "err"]
                ELSE futures
  /\ crashes' = crashes + 1
  /\ died_at' = IF pc \in RendezvousSteps
                THEN [v \in DOMAIN died_at \cup {w} |->
                        IF v = w THEN pc ELSE died_at[v]]
                ELSE died_at
  /\ UNCHANGED <<config_vars, pc, error, workers, os_environ, global_to_local,
                 model_, restored, queue, next_i, results, node_ip, killed,
                 env, ranks, session, pg, sent, forwarded, endpoint_src,
                 post_dispatches, raised, remote_self>>

\* ---------------------------------------------------------- specification
Next ==
  \/ setup
  \/ start_training
  \/ start_evaluating
  \/ start_predicting
  \/ setup_env_addr
  \/ setup_env_port
  \/ setup_env_broadcast
  \/ setup_env_wait
  \/ get_ranks
  \/ put_model
  \/ dispatch
  \/ process_results_poll
  \/ process_results_return
  \/ process_results_raise
  \/ restore
  \/ post_dispatch_begin
  \/ post_dispatch_end
  \/ \E w \in Ids : set_env_vars(w)
  \/ \E w \in Ids : execute_remote_begin(w)
  \/ \E w \in Ids : init_process_group(w)
  \/ \E w \in Ids : report(w)
  \/ \E w \in Ids : execute_remote_return(w)
  \/ \E w \in Ids : execute_remote_raise(w)
  \/ \E w \in Ids : shutdown_remote(w)
  \/ \E w \in Ids : actor_dies(w)

Spec == Init /\ [][Next]_vars

\* get_local_ranks alone, on every list of node identities up to MaxRankLen:
\* the driver stands at line 222 with that many live workers.
InitRanks ==
  /\ \E n \in 1 .. MaxRankLen :
       /\ num_workers = n
       /\ workers = [i \in 1 .. n |-> i - 1]
       /\ node_ip \in [0 .. (n - 1) -> RankNodeIps]
       /\ alive = [w \in 0 .. (n - 1) |-> TRUE]
       /\ killed = [w \in 0 .. (n - 1) |-> FALSE]
       /\ env = [w \in 0 .. (n - 1) |-> [k \in Keys |-> None]]
       /\ mailbox = [w \in 0 .. (n - 1) |-> <<>>]
       /\ wpc = [w \in 0 .. (n - 1) |-> "idle"]
       /\ ranks = [w \in 0 .. (n - 1) |-> <<0, 0, 0>>]
       /\ session = [w \in 0 .. (n - 1) |-> <<>>]
       /\ pg = [w \in 0 .. (n - 1) |-> "no"]
       /\ sent = [w \in 0 .. (n - 1) |-> 0]
       /\ remote_self = [w \in 0 .. (n - 1) |-> <<>>]
  /\ trainer_fn = "fit" /\ TUNE_INSTALLED = FALSE /\ session_enabled = FALSE
  /\ pc = "get_local_ranks"
  /\ error = None
  /\ os_environ = [k \in Keys |-> None]
  /\ global_to_local = <<>>
  /\ model_ = TheModel
  /\ restored = <<>>
  /\ queue = NoQueue
  /\ futures = NoFutures
  /\ next_i = 0
  /\ results = <<>>
  /\ forwarded = {}
  /\ endpoint_src = [addr |-> <<>>, port |-> <<>>]
  /\ post_dispatches = 0
  /\ crashes = 0
  /\ raised = {}
  /\ died_at = <<>>

SpecRanks == InitRanks /\ [][get_ranks]_vars

\* ================================================================== claims
RanksComputed == pc = "put_model" /\ Len(global_to_local) = Len(node_ips)
Positions == 1 .. Len(node_ips)
local_rank_of(g) == global_to_local[g][1]
node_rank_of(g) == global_to_local[g][2]

\* The dense first-seen index of the identity at position g: the number of
\* distinct identities that occur before its first occurrence.
FirstSeen(g) == CHOOSE i \in Positions :
                  /\ node_ips[i] = node_ips[g]
                  /\ \A j \in 1 .. (i - 1) : node_ips[j] # node_ips[g]
FirstSeenIndex(g) == Cardinality({node_ips[j] : j \in 1 .. (FirstSeen(g) - 1)})

\* C1: get_local_ranks gives every global rank, as node rank, the dense
\* zero-based first-seen index of its node identity ([A,B,A,A,B] gives
\* [0,1,0,0,1]).
C1_NodeRanksDenseFirstSeen ==
  RanksComputed => \A g \in Positions : node_rank_of(g) = FirstSeenIndex(g)

\* The positions that share the node identity of position g.
SameNode(g) == {h \in Positions : node_ips[h] = node_ips[g]}

\* C2: get_local_ranks gives the workers of one node identity the local
\* ranks 0..k-1, k the number of workers of that identity, strictly
\* increasing with the global rank.
C2_LocalRanksDensePerNode ==
  RanksComputed =>
    \A g \in Positions :
      /\ {local_rank_of(h) : h \in SameNode(g)} = 0 .. (Cardinality(SameNode(g)) - 1)
      /\ \A h \in SameNode(g) : h < g => local_rank_of(h) < local_rank_of(g)

\* C2 witness: the list [A,B,A,A,B] received the local ranks [0,0,1,2,1].
C2_Witness ==
  /\ RanksComputed
  /\ node_ips = <<"A", "B", "A", "A", "B">>
  /\ [g \in Positions |-> local_rank_of(g)] = <<0, 0, 1, 2, 1>>

\* ------------------------------------------------------------ the run
RunEnded == pc \in {"raised", "torn_down", "post_dispatch_raised"}
AfterRendezvous ==
  pc \in {"get_local_ranks", "put_model", "dispatch", "process_results",
          "restore", "returned", "post_dispatch", "torn_down",
          "post_dispatch_raised"}
AfterProcessResults ==
  pc \in {"restore", "returned", "post_dispatch", "torn_down",
          "post_dispatch_raised"}

\* C3: a run ends with post_dispatch having run once, whether it completed
\* or raised, as long as a worker of it is still alive to tear down.
C3_TeardownOncePerRun ==
  RunEnded => (post_dispatches = 1 \/ \A w \in Ids : ~alive[w])

\* C4: once post_dispatch has run, it has returned without raising, the
\* worker list is empty and every worker was killed.
C4_TeardownCompletesAndClearsPool ==
  (post_dispatches > 0 /\ pc # "post_dispatch") =>
    /\ pc = "torn_down"
    /\ workers = <<>>
    /\ \A w \in Ids : killed[w]

NonEmptyPositions == {i \in 1 .. Len(results) : results[i] # <<>>}

C6_WorkerErrorTearsDownThenPropagates ==
  raised # {} =>
    /\ restored = <<>>
    /\ ~AfterProcessResults
    /\ pc = "raised" => \A w \in Ids : killed[w]

\* C7: every worker that received the rendezvous endpoint holds the same
\* MASTER_ADDR and MASTER_PORT, after rendezvous every worker holds them, and
\* both were asked from the worker at position 0.
C7_SameEndpointOnEveryWorker ==
  /\ \A w \in DOMAIN env :
       (env[w]["MASTER_ADDR"] # None \/ env[w]["MASTER_PORT"] # None) =>
         /\ env[w]["MASTER_ADDR"] = os_environ["MASTER_ADDR"]
         /\ env[w]["MASTER_PORT"] = os_environ["MASTER_PORT"]
  /\ AfterRendezvous => \A w \in Ids : HasEndpoint(w)
  /\ os_environ["MASTER_ADDR"] # None =>
       (endpoint_src.addr = <<0>> /\ os_environ["MASTER_ADDR"] = node_ip[0])
  /\ os_environ["MASTER_PORT"] # None => endpoint_src.port = <<0>>

\* C7 witness: two workers on different nodes both hold worker 0's address
\* and the port it reported.
C7_Witness ==
  /\ pc = "dispatch"
  /\ num_workers = 2
  /\ node_ip[0] # node_ip[1]
  /\ \A w \in Ids : env[w]["MASTER_ADDR"] = node_ip[0] /\ env[w]["MASTER_PORT"] = "29501"

HasTask(w, op) == \E k \in 1 .. Len(mailbox[w]) : mailbox[w][k].op = op

\* C8: when the first execute_remote is dispatched every worker has run the
\* environment broadcast, and no worker is at or past init_process_group
\* without the endpoint variables.
C8_RendezvousBeforeInit ==
  /\ next_i > 0 =>
       \A v \in Ids : HasEndpoint(v) /\ ~HasTask(v, "set_env_vars")
  /\ \A w \in DOMAIN wpc :
       wpc[w] \in {"init_process_group", "run_stage"} => HasEndpoint(w)

\* C8 witness: the first of two workers is inside init_process_group while
\* the second is not dispatched yet, both with the endpoint set.
C8_Witness ==
  /\ num_workers = 2
  /\ pc = "dispatch" /\ next_i = 1
  /\ wpc[0] = "init_process_group"
  /\ \A v \in Ids : HasEndpoint(v)

AllSent ==
  UNION {{<<session[w][1], k>> : k \in 1 .. sent[w]} :
           w \in {v \in DOMAIN session : session[v] # <<>>}}

EnvelopeFields == {"results", "best_model_path", "model_state_stream", "callback_metrics"}

\* C10: a worker whose execute_remote returned gave a filled envelope
\* exactly when its adopted global rank is 0, and None otherwise.
C10_EnvelopeIffRankZero ==
  /\ futures.op = "execute_remote" =>
       \A w \in DOMAIN futures.st :
         futures.st[w] = "ok" =>
           /\ futures.val[w] # <<>> <=> global_rank(w) = 0
           /\ futures.val[w] # <<>> => DOMAIN futures.val[w][1] = EnvelopeFields
  /\ \A i \in 1 .. Len(results) : results[i] # <<>> <=> global_rank(i - 1) = 0

\* C10 witness: rank 0 returned a filled envelope and rank 1 returned None.
C10_Witness ==
  /\ futures.op = "execute_remote"
  /\ DOMAIN futures.st = {0, 1}
  /\ futures.st[0] = "ok" /\ futures.val[0] # <<>> /\ global_rank(0) = 0
  /\ futures.st[1] = "ok" /\ futures.val[1] = <<>> /\ global_rank(1) = 1

\* The actors that were dispatched with global rank 0 and adopted it.
Leaders == {w \in Ids : DispatchedRank(w) = 0 /\ global_rank(w) = 0}
CompletedNormally == pc \in {"returned", "post_dispatch", "torn_down", "post_dispatch_raised"}

\* What the driver holds when it kept exactly the envelope of actor w.
HoldsEnvelopeOf(w) ==
  /\ restored[1].results = <<"results", w>>
  /\ restored[1].state_dict = <<"state_dict", w>>
  /\ restored[1].callback_metrics = <<"metrics", w>>
  /\ restored[1].best_model_path \in {<<"ckpt", w>>, NotStored}
  /\ restored[1].best_model_path = NotStored <=>
       results[1][1].best_model_path = NoCheckpoint

\* C11: after a normal completion the driver holds the result, the model
\* state, the checkpoint path and the metrics of the envelope of the worker
\* dispatched with global rank 0, and those of no other worker.
C11_DriverHoldsLeaderEnvelope ==
  /\ CompletedNormally => restored # <<>>
  /\ restored # <<>> =>
       /\ CompletedNormally
       /\ \E w \in Leaders : HoldsEnvelopeOf(w)
       /\ \A v \in Ids \ Leaders : ~HoldsEnvelopeOf(v)

\* C11 witness: two workers ran to the end and the driver holds what the
\* worker at position 0 returned, checkpoint path included.
C11_Witness ==
  /\ pc = "returned"
  /\ num_workers = 2
  /\ restored # <<>>
  /\ restored[1] = [results |-> <<"results", 0>>,
                    state_dict |-> <<"state_dict", 0>>,
                    best_model_path |-> <<"ckpt", 0>>,
                    callback_metrics |-> <<"metrics", 0>>]

\* Whether the environment broadcast reached actor w: the call is in its
\* mailbox, or it has run and set the endpoint.
BroadcastReached(w) ==
  \/ HasTask(w, "set_env_vars")
  \/ env[w]["MASTER_ADDR"] # None
  \/ env[w]["MASTER_PORT"] # None

LeaderLostAt(steps) == 0 \in DOMAIN died_at /\ died_at[0] \in steps

C13_DispatchNonBlocking ==
  /\ pc = "dispatch" =>
       /\ ENABLED dispatch
       /\ results = <<>>
       /\ forwarded = {}
  /\ pc = "process_results" =>
       /\ next_i = num_workers
       /\ DOMAIN futures.st = Ids

\* C13 witness: the worker at position 0 is still waiting at the barrier of
\* init_process_group and the call for position 1 has been issued.
C13_Witness ==
  /\ num_workers = 2
  /\ pc = "process_results"
  /\ wpc[0] = "init_process_group"
  /\ pg[0] = "joining"
  /\ HasTask(1, "execute_remote")

\* A live actor that has run set_world_ranks for the call dispatched to its
\* position.
Adopted(i) ==
  /\ i \in DOMAIN workers
  /\ i <= next_i
  /\ alive[workers[i]]
  /\ ~HasTask(workers[i], "execute_remote")

AdoptedPositions == {i \in DOMAIN workers : Adopted(i)}

RanksAsAssigned ==
  LET adopted == AdoptedPositions
      held == {global_rank(workers[i]) : i \in adopted}
  IN /\ \A i \in adopted :
          ranks[workers[i]] =
            <<i - 1, global_to_local[i][1], global_to_local[i][2]>>
     /\ Cardinality(held) = Cardinality(adopted)
     /\ (workers # <<>> /\ adopted = DOMAIN workers) =>
          held = 0 .. (num_workers - 1)

RanksStable ==
  /\ global_to_local # <<>> => global_to_local' = global_to_local
  /\ \A i \in AdoptedPositions \cap AdoptedPositions' :
       ranks'[workers[i]] = ranks[workers[i]]

\* C14: a worker that adopted its ranks holds its pool position as global
\* rank and entry i of the driver's assignment as (local rank, node rank);
\* the adopted global ranks are pairwise distinct and cover 0..N-1; no step
\* changes an adopted rank or the assignment.
C14_RanksFollowAssignment ==
  /\ RanksAsAssigned
  /\ [][RanksAsAssigned' /\ RanksStable]_vars

\* C14 witness: two workers on one node have both adopted their ranks, and
\* the second holds local rank 1.
C14_Witness ==
  /\ num_workers = 2
  /\ pc = "process_results"
  /\ Adopted(1) /\ Adopted(2)
  /\ ranks[workers[2]][2] = 1

\* The pickled plugins in flight: one per execute_remote call not yet taken
\* up by its actor.
PickledPlugins ==
  UNION {{mailbox[w][k].plugin :
            k \in {j \in DOMAIN mailbox[w] :
                     mailbox[w][j].op = "execute_remote"}} :
         w \in DOMAIN mailbox}

Serialized == next_i > 0

\* C15: no pickled plugin has a worker list, every unpickled copy has an
\* empty one, and after the driver pickled itself its own list still holds
\* every actor of the pool (until teardown empties it).
C15_NoWorkerHandlesSerialized ==
  /\ \A d \in PickledPlugins : "workers" \notin DOMAIN d
  /\ \A w \in DOMAIN remote_self :
       remote_self[w] # <<>> => remote_self[w][1].workers = <<>>
  /\ Serialized /\ pc # "torn_down" =>
       workers = [i \in 1 .. num_workers |-> i - 1]

\* C15 witness: of two workers one runs on its unpickled copy, the call for
\* the other is still in flight, and the driver holds both handles.
C15_Witness ==
  /\ num_workers = 2
  /\ 0 \in DOMAIN remote_self
  /\ remote_self[0] # <<>>
  /\ remote_self[0][1].workers = <<>>
  /\ HasTask(1, "execute_remote")
  /\ PickledPlugins # {}
  /\ Len(workers) = 2

\* The stages of execution_loop the driver has behind it, by what each left
\* in the state, for a pool of n workers.
StagesBehind(n) ==
  /\ AfterRendezvous =>
       /\ endpoint_src = [addr |-> <<workers[1]>>, port |-> <<workers[1]>>]
       /\ os_environ["MASTER_ADDR"] = node_ip[workers[1]]
       /\ os_environ["MASTER_PORT"] # None
       /\ \A i \in 1 .. n :
            /\ env[workers[i]]["MASTER_ADDR"] = os_environ["MASTER_ADDR"]
            /\ env[workers[i]]["MASTER_PORT"] = os_environ["MASTER_PORT"]
  /\ pc \in {"dispatch", "process_results", "restore", "returned"} =>
       /\ Len(global_to_local) = n
       /\ model_ = IF pc = "returned" THEN TheModel ELSE None
  /\ pc \in {"process_results", "restore", "returned"} => next_i = n
  /\ pc = "process_results" =>
       DOMAIN futures.st = {workers[i] : i \in 1 .. n}
  /\ pc \in {"restore", "returned"} =>
       /\ Len(results) = n
       /\ \A i \in 1 .. n : (results[i] # <<>>) <=> (i = 1)
  /\ pc = "returned" => restored = <<Unpacked(results[1][1])>>

\* C16: a pool of one worker goes through the stages of a larger pool: the
\* endpoint is taken from the worker and broadcast to it, and assignment,
\* dispatch, collection and restoring each leave for n = 1 what they leave for
\* any n.
C16_SingleWorkerSameSequence ==
  pc \notin {"constructed", "torn_down"} => StagesBehind(num_workers)

\* C16 witness: a run with one worker has returned with the worker's
\* envelope restored.
C16_Witness ==
  /\ num_workers = 1
  /\ pc = "returned"
  /\ env[0]["MASTER_ADDR"] = node_ip[0]
  /\ restored # <<>>

\* C17: after the rendezvous every worker's environment holds, for each of
\* the four keys, what the driver's environment holds for it, the absence of
\* a value included.
C17_WorkersHoldDriverEnv ==
  AfterRendezvous =>
    \A w \in Ids : \A k \in Keys : env[w][k] = os_environ[k]

\* C18: a queue exists only in a training run with tune installed and the
\* session enabled; without a queue nothing is drained or forwarded and the
\* results are still collected; a worker has a session, and reports, only
\* when its call carried the queue.
C18_NoChannelNoDraining ==
  /\ queue.exists =>
       trainer_fn = "fit" /\ TUNE_INSTALLED /\ session_enabled
  /\ ~queue.exists =>
       /\ queue.items = <<>>
       /\ forwarded = {}
       /\ \A w \in DOMAIN session : session[w] = <<>> /\ sent[w] = 0
  /\ \A w \in DOMAIN mailbox : \A k \in DOMAIN mailbox[w] :
       mailbox[w][k].op = "execute_remote" =>
         mailbox[w][k].queue = queue.exists
  /\ \A w \in DOMAIN session : sent[w] > 0 => session[w] # <<>>

\* C18 witness: a training run without tune installed has collected the
\* results of two workers with no queue and no session anywhere.
C18_Witness ==
  /\ trainer_fn = "fit"
  /\ ~TUNE_INSTALLED
  /\ num_workers = 2
  /\ pc = "returned"
  /\ ~queue.exists
  /\ \A w \in Ids : session[w] = <<>>

\* execution_loop has been left: it returned, or an exception left it.
LeftExecutionLoop ==
  pc \in {"raised", "returned", "post_dispatch", "torn_down",
          "post_dispatch_raised"}

\* C19: while calls are dispatched and collected the driver holds no model,
\* and whenever execution_loop has been left, by returning or by raising, it
\* holds the model it entered with.
C19_ModelClearedThenRestored ==
  /\ pc \in {"dispatch", "process_results", "restore"} => model_ = None
  /\ LeftExecutionLoop => model_ = TheModel

\* C20: whenever execution_loop has been left, by returning or by raising, a
\* queue it created has been shut down, and a queue is shut down only after
\* every result was collected and the state of rank 0 restored.
C20_QueueShutDownOnEveryPath ==
  /\ LeftExecutionLoop /\ queue.exists => queue.shutdown
  /\ queue.shutdown =>
       /\ queue.exists
       /\ restored # <<>>
       /\ futures.op # "execute_remote"
====
